---- MODULE Spec2Model ----
(***************************************************************************)
(* Conway's Game of Life engine (src/src/game_of_life.py, class            *)
(* GameOfLife) as a state machine.  A cell is a pair <<row, col>> of       *)
(* integers; the engine state is the set of alive cells, the generation    *)
(* counter and the advisory width and height.                              *)
(***************************************************************************)
EXTENDS Integers, FiniteSets, Sequences, TLC

VARIABLES
    width,           \* GameOfLife.width
    height,          \* GameOfLife.height
    alive_cells,     \* GameOfLife.alive_cells : set of <<row, col>>
    generation,      \* GameOfLife.generation
    op,              \* the last call made on the engine: <<name, arguments>>
    ret,             \* the value that call returned ("none" for a procedure)
    old_alive,       \* alive_cells as it was when that call started
    old_generation,  \* generation as it was when that call started
    loaded,          \* <<name, offset_row, offset_col>> of the catalog pattern
                     \* loaded into the empty generation-0 engine, while only
                     \* step() has been called since; NotLoaded otherwise
    calls,           \* number of calls made on the engine since construction
    handle,          \* the value of game.alive_cells the caller keeps:
                     \* <<"none", {}>> when it keeps none, <<"live", {}>> when
                     \* it is the set object the engine uses now, and
                     \* <<"stale", S>> when it is a set object, of content S,
                     \* that the engine has replaced
    pc,              \* where run_simulation stands; "caller" outside of it
    remaining,       \* run_simulation: iterations of range(generations) left
    pending,         \* step: the local new_alive, built and not yet installed
    run              \* the record of the last run_simulation: its argument,
                     \* the steps and renders it has made, the state it last
                     \* rendered, the state and the call count it began with

vars == << width, height, alive_cells, generation, op, ret,
           old_alive, old_generation, loaded, calls,
           handle, pc, remaining, pending, run >>

driver == << pc, remaining, pending, run >>

engine == << width, height, alive_cells, generation >>

----------------------------------------------------------------------------
(* Bounds of the model.                                                    *)

\* Calls made on one engine under Spec.
MaxCalls == 3

\* Generations run after loading a catalog pattern under RunSpec.
MaxRun == 9

\* Coordinates passed to add_cell and remove_cell: negative ones and ones
\* beyond width and height among them.
Coords == { -1, 0, 1 }

\* Coordinates the queries is_alive and count_neighbors are called with.
QueryCoords == { -1, 0 }

\* <<width, height>> pairs an engine is constructed with: the constructor
\* takes any integers, zero and negative ones among them.
Dims == { <<2, 1>>, <<3, 0>>, <<-1, -2>> }

\* Densities and random draws, in quarters: density q stands for q/4 and a
\* draw u for u/4.  random.random() returns a value in [0, 1), so u is in 0..3.
Densities == { -2, 0, 2, 4, 6 }
DrawValues == { 0, 3 }

\* <<offset_row, offset_col>> pairs passed to add_pattern: with a pattern
\* that is not in the catalog, with a catalog pattern under Spec, and with a
\* catalog pattern under RunSpec.
Offsets == { <<4, 4>>, <<-2, -1>> }
LoadOffsets == { <<-1, -1>> }
RunOffsets == { <<0, 0>>, <<5, 4>>, <<5, 5>>, <<-3, 7>> }

----------------------------------------------------------------------------
(* The pattern catalog: each pattern is a sequence of rows, each row a     *)
(* sequence of one-character strings.                                      *)

PATTERNS ==
  [ glider |-> <<
        << ".", "O", "." >>,
        << ".", ".", "O" >>,
        << "O", "O", "O" >>
      >>,
    blinker |-> <<
        << "O", "O", "O" >>
      >>,
    toad |-> <<
        << ".", "O", "O", "O" >>,
        << "O", "O", "O", "." >>
      >>,
    beacon |-> <<
        << "O", "O", ".", "." >>,
        << "O", "O", ".", "." >>,
        << ".", ".", "O", "O" >>,
        << ".", ".", "O", "O" >>
      >>,
    pulsar |-> <<
        << ".", ".", "O", "O", "O", ".", ".", ".", "O", "O", "O", ".", "." >>,
        << ".", ".", ".", ".", ".", ".", ".", ".", ".", ".", ".", ".", "." >>,
        << "O", ".", ".", ".", ".", "O", ".", "O", ".", ".", ".", ".", "O" >>,
        << "O", ".", ".", ".", ".", "O", ".", "O", ".", ".", ".", ".", "O" >>,
        << "O", ".", ".", ".", ".", "O", ".", "O", ".", ".", ".", ".", "O" >>,
        << ".", ".", "O", "O", "O", ".", ".", ".", "O", "O", "O", ".", "." >>,
        << ".", ".", ".", ".", ".", ".", ".", ".", ".", ".", ".", ".", "." >>,
        << ".", ".", "O", "O", "O", ".", ".", ".", "O", "O", "O", ".", "." >>,
        << "O", ".", ".", ".", ".", "O", ".", "O", ".", ".", ".", ".", "O" >>,
        << "O", ".", ".", ".", ".", "O", ".", "O", ".", ".", ".", ".", "O" >>,
        << "O", ".", ".", ".", ".", "O", ".", "O", ".", ".", ".", ".", "O" >>,
        << ".", ".", ".", ".", ".", ".", ".", ".", ".", ".", ".", ".", "." >>,
        << ".", ".", "O", "O", "O", ".", ".", ".", "O", "O", "O", ".", "." >>
      >>,
    glider_gun |-> <<
        << ".", ".", ".", ".", ".", ".", ".", ".", ".", ".", ".", ".", ".", ".", ".", ".", ".", ".", ".", ".", ".", ".", ".", ".", "O", ".", ".", ".", ".", ".", ".", ".", ".", ".", ".", "." >>,
        << ".", ".", ".", ".", ".", ".", ".", ".", ".", ".", ".", ".", ".", ".", ".", ".", ".", ".", ".", ".", ".", ".", "O", ".", "O", ".", ".", ".", ".", ".", ".", ".", ".", ".", ".", "." >>,
        << ".", ".", ".", ".", ".", ".", ".", ".", ".", ".", ".", ".", "O", "O", ".", ".", ".", ".", ".", ".", "O", "O", ".", ".", ".", ".", ".", ".", ".", ".", ".", ".", ".", ".", "O", "O" >>,
        << ".", ".", ".", ".", ".", ".", ".", ".", ".", ".", ".", "O", ".", ".", ".", "O", ".", ".", ".", ".", "O", "O", ".", ".", ".", ".", ".", ".", ".", ".", ".", ".", ".", ".", "O", "O" >>,
        << "O", "O", ".", ".", ".", ".", ".", ".", ".", ".", "O", ".", ".", ".", ".", ".", "O", ".", ".", ".", "O", "O", ".", ".", ".", ".", ".", ".", ".", ".", ".", ".", ".", ".", ".", "." >>,
        << "O", "O", ".", ".", ".", ".", ".", ".", ".", ".", "O", ".", ".", ".", "O", ".", "O", "O", ".", ".", ".", ".", "O", ".", "O", ".", ".", ".", ".", ".", ".", ".", ".", ".", ".", "." >>,
        << ".", ".", ".", ".", ".", ".", ".", ".", ".", ".", "O", ".", ".", ".", ".", ".", "O", ".", ".", ".", ".", ".", ".", ".", "O", ".", ".", ".", ".", ".", ".", ".", ".", ".", ".", "." >>,
        << ".", ".", ".", ".", ".", ".", ".", ".", ".", ".", ".", "O", ".", ".", ".", "O", ".", ".", ".", ".", ".", ".", ".", ".", ".", ".", ".", ".", ".", ".", ".", ".", ".", ".", ".", "." >>,
        << ".", ".", ".", ".", ".", ".", ".", ".", ".", ".", ".", ".", "O", "O", ".", ".", ".", ".", ".", ".", ".", ".", ".", ".", ".", ".", ".", ".", ".", ".", ".", ".", ".", ".", ".", "." >>
      >>,
    lightweight_spaceship |-> <<
        << ".", "O", "O", "O", "O" >>,
        << "O", ".", ".", ".", "O" >>,
        << ".", ".", ".", ".", "O" >>,
        << "O", ".", ".", "O", "." >>
      >>,
    r_pentomino |-> <<
        << ".", "O", "O" >>,
        << "O", "O", "." >>,
        << ".", "O", "." >>
      >>,
    diehard |-> <<
        << ".", ".", ".", ".", ".", ".", "O", "." >>,
        << "O", "O", ".", ".", ".", ".", ".", "." >>,
        << ".", "O", ".", ".", ".", "O", "O", "O" >>
      >>,
    acorn |-> <<
        << ".", "O", ".", ".", ".", ".", "." >>,
        << ".", ".", ".", "O", ".", ".", "." >>,
        << "O", "O", ".", ".", "O", "O", "O" >>
      >>,
    block |-> <<
        << "O", "O" >>,
        << "O", "O" >>
      >>,
    beehive |-> <<
        << ".", "O", "O", "." >>,
        << "O", ".", ".", "O" >>,
        << ".", "O", "O", "." >>
      >>,
    loaf |-> <<
        << ".", "O", "O", "." >>,
        << "O", ".", ".", "O" >>,
        << ".", "O", ".", "O" >>,
        << ".", ".", "O", "." >>
      >> ]

\* Names of the catalog.
PatternNames ==
    { "glider", "blinker", "toad", "beacon", "pulsar", "glider_gun",
      "lightweight_spaceship", "r_pentomino", "diehard", "acorn",
      "block", "beehive", "loaf" }

\* Patterns that are not in the catalog: the empty pattern; rows of unequal
\* length with the markers '#' and '*' and characters that are no marker; a
\* ring of eight cells; a full 3 x 3 square; three cells in an L.
OtherPatterns ==
    { << >>,
      << << "#", "x" >>, << " ", "*", "O" >>, << >> >>,
      << << "O", "O", "O" >>, << "O", ".", "O" >>, << "O", "O", "O" >> >>,
      << << "#", "#", "#" >>, << "#", "#", "#" >>, << "#", "#", "#" >> >>,
      << << "O", "O" >>, << "O", "." >> >> }

----------------------------------------------------------------------------
(* The engine's methods as operators on the alive set.                     *)

\* Offsets that reach two rows and two columns away.
DeltasWide == { -2, -1, 0, 1, 2 }

\* Offsets that leave out the row above and the column to the left.
DeltasForward == { 0, 1 }

\* The offsets dr and dc of count_neighbors and step.
Deltas == { -1, 0, 1 }

\* is_alive: membership of (row, col).
is_alive(cells, row, col) == << row, col >> \in cells

\* count_neighbors with the test for (0, 0) left out: the cell counts itself.
count_neighbors_with_self(cells, row, col) ==
    Cardinality({ d \in Deltas \X Deltas :
                    << row + d[1], col + d[2] >> \in cells })

\* count_neighbors that counts only inside range(height) x range(width).
count_neighbors_inside(cells, row, col) ==
    Cardinality({ d \in Deltas \X Deltas :
                    /\ ~ (d[1] = 0 /\ d[2] = 0)
                    /\ 0 <= row + d[1] /\ row + d[1] < height
                    /\ 0 <= col + d[2] /\ col + d[2] < width
                    /\ << row + d[1], col + d[2] >> \in cells })

\* count_neighbors: the loop over dr, dc skips (0, 0) and counts the members.
count_neighbors(cells, row, col) ==
    Cardinality({ d \in Deltas \X Deltas :
                    /\ ~ (d[1] = 0 /\ d[2] = 0)
                    /\ << row + d[1], col + d[2] >> \in cells })

\* The first loop of step without the neighbours: only alive cells are checked.
cells_to_check_alive_only(cells) == cells

\* step, first loop: the alive cells and their neighbours.
cells_to_check(cells) ==
    { << x[1] + d[1], x[2] + d[2] >> : x \in cells, d \in Deltas \X Deltas }

\* The rule with survival on 3 neighbours only.
rule_survive_on_3(cells, row, col) ==
    count_neighbors(cells, row, col) = 3

\* The rule with birth on 2 or 3 neighbours.
rule_birth_on_2(cells, row, col) ==
    count_neighbors(cells, row, col) \in { 2, 3 }

\* The rule with survival on 2 or more neighbours.
rule_no_overpopulation(cells, row, col) ==
    IF is_alive(cells, row, col)
    THEN count_neighbors(cells, row, col) >= 2
    ELSE count_neighbors(cells, row, col) = 3

\* step, the rule applied to one checked cell: whether it is alive next.
rule(cells, row, col) ==
    IF is_alive(cells, row, col)
    THEN count_neighbors(cells, row, col) \in { 2, 3 }
    ELSE count_neighbors(cells, row, col) = 3

\* A step that keeps only the cells inside range(height) x range(width).
new_alive_clipped(cells) ==
    { x \in cells_to_check(cells) :
        /\ rule(cells, x[1], x[2])
        /\ x[1] \in 0..(height - 1)
        /\ x[2] \in 0..(width - 1) }

\* step, second loop: the set installed as the next generation.
new_alive(cells) ==
    { x \in cells_to_check(cells) : rule(cells, x[1], x[2]) }

\* The markers with a lower-case letter o.
AliveMarkersLowerCase == { "o", "#", "*" }

\* The characters add_pattern takes for an alive cell.
AliveMarkers == { "O", "#", "*" }

\* pattern_cells with row and column exchanged.
pattern_cells_transposed(pattern, offset_row, offset_col) ==
    UNION { { << (c - 1) + offset_row, (r - 1) + offset_col >> :
                c \in { k \in 1..Len(pattern[r]) : pattern[r][k] \in AliveMarkers } } :
            r \in 1..Len(pattern) }

\* add_pattern: the cells the pattern marks alive, moved by the offsets.
\* enumerate() counts from 0 and sequences from 1.
pattern_cells(pattern, offset_row, offset_col) ==
    UNION { { << (r - 1) + offset_row, (c - 1) + offset_col >> :
                c \in { k \in 1..Len(pattern[r]) : pattern[r][k] \in AliveMarkers } } :
            r \in 1..Len(pattern) }

\* randomize: the rectangle range(height) x range(width).
rectangle(h, w) == (0..(h - 1)) \X (0..(w - 1))

\* random_cells with the comparison draw <= density.
random_cells_inclusive(h, w, density, draw) ==
    { x \in rectangle(h, w) : draw[x] <= density }

\* randomize: the cells whose draw is below the density.
random_cells(h, w, density, draw) ==
    { x \in rectangle(h, w) : draw[x] < density }

\* population: the size of the alive set.
population(cells) == Cardinality(cells)

----------------------------------------------------------------------------
(* The calls.  Each records itself in op, ret, old_alive and               *)
(* old_generation.                                                         *)

\* The value of loaded when no catalog pattern is loaded alone.
NotLoaded == << "none", 0, 0 >>

\* The value of handle when the caller keeps no value of game.alive_cells.
NoHandle == << "none", {} >>

\* A call made by the caller itself, outside run_simulation.  step() binds
\* alive_cells to a new set object, so a kept one is live no longer; every
\* other method works on the set object in place.
Called(name, args, result) ==
    /\ pc = "caller"
    /\ op' = << name, args >>
    /\ ret' = result
    /\ old_alive' = alive_cells
    /\ old_generation' = generation
    /\ calls' = calls + 1
    /\ handle' = IF name = "step" /\ handle[1] = "live"
                 THEN << "stale", alive_cells >>
                 ELSE handle
    /\ UNCHANGED driver

NoRun ==
    [ status |-> "idle", generations |-> 0, steps |-> 0, renders |-> 0,
      shown |-> << {}, 0 >>, first |-> << {}, 0 >>, at |-> 0 ]

Init ==
    /\ \E d \in Dims : width = d[1] /\ height = d[2]
    /\ alive_cells = {}
    /\ generation = 0
    /\ op = << "__init__", << >> >>
    /\ ret = "none"
    /\ old_alive = {}
    /\ old_generation = 0
    /\ loaded = NotLoaded
    /\ calls = 0
    /\ handle = NoHandle
    /\ pc = "caller"
    /\ remaining = 0
    /\ pending = {}
    /\ run = NoRun

\* add_cell that also counts a generation.
AddCellCounted(row, col) ==
    /\ alive_cells' = alive_cells \cup { << row, col >> }
    /\ generation' = generation + 1
    /\ UNCHANGED << width, height >>
    /\ loaded' = NotLoaded
    /\ Called("add_cell", << row, col >>, "none")

\* add_cell that ignores a cell outside range(height) x range(width).
AddCellBounded(row, col) ==
    /\ alive_cells' = IF 0 <= row /\ row < height /\ 0 <= col /\ col < width
                      THEN alive_cells \cup { << row, col >> }
                      ELSE alive_cells
    /\ UNCHANGED << width, height, generation >>
    /\ loaded' = NotLoaded
    /\ Called("add_cell", << row, col >>, "none")

AddCell(row, col) ==
    /\ alive_cells' = alive_cells \cup { << row, col >> }
    /\ UNCHANGED << width, height, generation >>
    /\ loaded' = NotLoaded
    /\ Called("add_cell", << row, col >>, "none")

\* remove_cell that toggles: a cell that is not alive becomes alive.
RemoveCellToggles(row, col) ==
    /\ alive_cells' = IF << row, col >> \in alive_cells
                      THEN alive_cells \ { << row, col >> }
                      ELSE alive_cells \cup { << row, col >> }
    /\ UNCHANGED << width, height, generation >>
    /\ loaded' = NotLoaded
    /\ Called("remove_cell", << row, col >>, "none")

RemoveCell(row, col) ==
    /\ alive_cells' = alive_cells \ { << row, col >> }
    /\ UNCHANGED << width, height, generation >>
    /\ loaded' = NotLoaded
    /\ Called("remove_cell", << row, col >>, "none")

IsAlive(row, col) ==
    /\ UNCHANGED << engine, loaded >>
    /\ Called("is_alive", << row, col >>, is_alive(alive_cells, row, col))

CountNeighbors(row, col) ==
    /\ UNCHANGED << engine, loaded >>
    /\ Called("count_neighbors", << row, col >>,
              count_neighbors(alive_cells, row, col))

\* step that counts two generations.
StepCountsTwo ==
    /\ alive_cells' = new_alive(alive_cells)
    /\ generation' = generation + 2
    /\ UNCHANGED << width, height, loaded >>
    /\ Called("step", << >>, "none")

\* step that returns at once on an empty grid.
StepSkipsEmpty ==
    /\ alive_cells' = new_alive(alive_cells)
    /\ generation' = IF alive_cells = {} THEN generation ELSE generation + 1
    /\ UNCHANGED << width, height, loaded >>
    /\ Called("step", << >>, "none")

Step ==
    /\ alive_cells' = new_alive(alive_cells)
    /\ generation' = generation + 1
    /\ UNCHANGED << width, height, loaded >>
    /\ Called("step", << >>, "none")

\* clear that keeps the generation counter.
ClearKeepsGeneration ==
    /\ alive_cells' = {}
    /\ UNCHANGED << width, height, generation >>
    /\ loaded' = NotLoaded
    /\ Called("clear", << >>, "none")

Clear ==
    /\ alive_cells' = {}
    /\ generation' = 0
    /\ UNCHANGED << width, height >>
    /\ loaded' = NotLoaded
    /\ Called("clear", << >>, "none")

\* randomize that answers a density outside [0, 1] with a ValueError.
RandomizeChecked(density, draw) ==
    IF density < 0 \/ density > 4
    THEN /\ UNCHANGED << engine, loaded >>
         /\ Called("randomize", << density >>, "ValueError")
    ELSE /\ alive_cells' = {} \cup random_cells(height, width, density, draw)
         /\ generation' = 0
         /\ UNCHANGED << width, height >>
         /\ loaded' = NotLoaded
         /\ Called("randomize", << density >>, "none")

\* randomize without its call of clear().
RandomizeKeepsCells(density, draw) ==
    /\ alive_cells' = alive_cells \cup random_cells(height, width, density, draw)
    /\ UNCHANGED << width, height, generation >>
    /\ loaded' = NotLoaded
    /\ Called("randomize", << density >>, "none")

\* clear(), then one draw and one add_cell per cell of the rectangle.
Randomize(density, draw) ==
    /\ alive_cells' = {} \cup random_cells(height, width, density, draw)
    /\ generation' = 0
    /\ UNCHANGED << width, height >>
    /\ loaded' = NotLoaded
    /\ Called("randomize", << density >>, "none")

\* add_pattern that first kills every cell under the pattern's rows.
AddPatternResets(pattern, offset_row, offset_col) ==
    /\ alive_cells' =
            (alive_cells \
                UNION { { << (r - 1) + offset_row, (c - 1) + offset_col >> :
                            c \in 1..Len(pattern[r]) } : r \in 1..Len(pattern) })
            \cup pattern_cells(pattern, offset_row, offset_col)
    /\ UNCHANGED << width, height, generation >>
    /\ loaded' = NotLoaded
    /\ Called("add_pattern", << pattern, offset_row, offset_col >>, "none")

\* add_pattern: one add_cell per marked cell.
AddPattern(pattern, offset_row, offset_col) ==
    /\ alive_cells' = alive_cells \cup pattern_cells(pattern, offset_row, offset_col)
    /\ UNCHANGED << width, height, generation >>
    /\ loaded' = NotLoaded
    /\ Called("add_pattern", << pattern, offset_row, offset_col >>, "none")

\* add_pattern(PATTERNS[name], offset_row, offset_col).
LoadPattern(name, offset_row, offset_col) ==
    /\ alive_cells' = alive_cells \cup pattern_cells(PATTERNS[name], offset_row, offset_col)
    /\ UNCHANGED << width, height, generation >>
    /\ loaded' = IF alive_cells = {} /\ generation = 0
                 THEN << name, offset_row, offset_col >>
                 ELSE NotLoaded
    /\ Called("add_pattern", << PATTERNS[name], offset_row, offset_col >>, "none")

Population ==
    /\ UNCHANGED << engine, loaded >>
    /\ Called("population", << >>, population(alive_cells))

----------------------------------------------------------------------------
(* Spec: any sequence of at most MaxCalls calls on a new engine.           *)

Next ==
    /\ calls < MaxCalls
    /\ \/ \E row \in Coords, col \in Coords : AddCell(row, col)
       \/ \E row \in Coords, col \in Coords : RemoveCell(row, col)
       \/ \E row \in QueryCoords, col \in QueryCoords : IsAlive(row, col)
       \/ \E row \in QueryCoords, col \in QueryCoords :
            CountNeighbors(row, col)
       \/ Step
       \/ Clear
       \/ \E density \in Densities :
            \E draw \in [rectangle(height, width) -> DrawValues] :
                Randomize(density, draw)
       \/ \E pattern \in OtherPatterns, o \in Offsets :
            AddPattern(pattern, o[1], o[2])
       \/ \E name \in PatternNames, o \in LoadOffsets :
            LoadPattern(name, o[1], o[2])
       \/ Population

Spec == Init /\ [][Next]_vars

\* Steps of a long run: the diehard is followed past its last generation.
MaxLong == 132

(* RunSpec: a catalog pattern loaded into a new engine, then stepped.      *)

RunNext ==
    \/ /\ calls = 0
       /\ \E name \in PatternNames, o \in RunOffsets :
            LoadPattern(name, o[1], o[2])
    \/ /\ calls > 0
       /\ generation < MaxRun
       /\ Step

RunSpec == Init /\ [][RunNext]_vars

(* LongSpec: the diehard loaded into a new engine, then stepped MaxLong     *)
(* times.                                                                   *)

LongNext ==
    \/ /\ calls = 0
       /\ \E o \in RunOffsets : LoadPattern("diehard", o[1], o[2])
    \/ /\ calls > 0
       /\ generation < MaxLong
       /\ Step

LongSpec == Init /\ [][LongNext]_vars

----------------------------------------------------------------------------
(* AliasSpec: the calls of Spec, and a caller that reads the attribute     *)
(* game.alive_cells, keeps the value and calls the set's own add on it.    *)

\* h = game.alive_cells: the attribute is the engine's set object itself.
ReadAliveCells ==
    /\ pc = "caller"
    /\ handle' = << "live", {} >>
    /\ op' = << "alive_cells", << >> >>
    /\ ret' = "set"
    /\ old_alive' = alive_cells
    /\ old_generation' = generation
    /\ calls' = calls + 1
    /\ UNCHANGED << engine, loaded, driver >>

\* h.add((row, col)) on the kept value: on the engine's own set while it is
\* live, on the replaced set object otherwise.
HandleAdd(row, col) ==
    /\ pc = "caller"
    /\ handle[1] # "none"
    /\ IF handle[1] = "live"
       THEN /\ alive_cells' = alive_cells \cup { << row, col >> }
            /\ handle' = handle
            /\ loaded' = NotLoaded
       ELSE /\ handle' = << "stale", handle[2] \cup { << row, col >> } >>
            /\ UNCHANGED << alive_cells, loaded >>
    /\ op' = << "handle.add", << row, col >> >>
    /\ ret' = "none"
    /\ old_alive' = alive_cells
    /\ old_generation' = generation
    /\ calls' = calls + 1
    /\ UNCHANGED << width, height, generation, driver >>

AliasNext ==
    \/ Next
    \/ /\ calls < MaxCalls
       /\ ReadAliveCells
    \/ /\ calls < MaxCalls
       /\ \E row \in Coords, col \in Coords : HandleAdd(row, col)

AliasSpec == Init /\ [][AliasNext]_vars

----------------------------------------------------------------------------
(* DriveSpec: run_simulation(game, generations) run statement by statement. *)
(* pc is the position of the driver: "caller" outside a run, "loop" at the  *)
(* head of the for loop, "render" at the output and the sleep, "step_enter" *)
(* at the call of game.step(), "step_assign" before line 79, "step_count"   *)
(* before line 80, "check" at the population test. remaining is what        *)
(* range(generations) has left, pending the local new_alive of step().      *)
(* A KeyboardInterrupt is raised between any two statements of the run and  *)
(* caught by the except clause, which returns to the caller.                *)

Generations == { -1, 0, 1, 3 }

InRun == pc \in { "loop", "render", "step_enter", "step_assign", "step_count",
                  "check" }

StartRun(generations) ==
    /\ pc = "caller"
    /\ pc' = "loop"
    /\ remaining' = IF generations > 0 THEN generations ELSE 0
    /\ op' = << "run_simulation", << generations >> >>
    /\ ret' = "none"
    /\ old_alive' = alive_cells
    /\ old_generation' = generation
    /\ calls' = calls + 1
    /\ run' = [ status |-> "running", generations |-> generations,
                steps |-> 0, renders |-> 0, shown |-> << {}, 0 >>,
                first |-> << alive_cells, generation >>, at |-> calls + 1 ]
    /\ UNCHANGED << engine, loaded, handle, pending >>

\* for _ in range(generations): the next item, or the end of the loop.
LoopHead ==
    /\ pc = "loop"
    /\ IF remaining > 0
       THEN /\ remaining' = remaining - 1
            /\ pc' = "render"
       ELSE /\ remaining' = remaining
            /\ pc' = "caller"
    /\ run' = IF remaining > 0 THEN run ELSE [ run EXCEPT !.status = "returned" ]
    /\ UNCHANGED << engine, op, ret, old_alive, old_generation, loaded, calls,
                    handle, pending >>

\* clear_screen(), the two print calls and time.sleep(delay).
RenderAndSleep ==
    /\ pc = "render"
    /\ pc' = "step_enter"
    /\ run' = [ run EXCEPT !.renders = @ + 1,
                           !.shown = << alive_cells, generation >> ]
    /\ UNCHANGED << engine, op, ret, old_alive, old_generation, loaded, calls,
                    handle, remaining, pending >>

\* game.step(), lines 58-77: the next generation is built in a local set.
StepBuild ==
    /\ pc = "step_enter"
    /\ pending' = new_alive(alive_cells)
    /\ pc' = "step_assign"
    /\ op' = << "step", << >> >>
    /\ ret' = "none"
    /\ old_alive' = alive_cells
    /\ old_generation' = generation
    /\ run' = [ run EXCEPT !.steps = @ + 1 ]
    /\ UNCHANGED << engine, loaded, calls, handle, remaining >>

\* line 79: self.alive_cells = new_alive
StepAssign ==
    /\ pc = "step_assign"
    /\ alive_cells' = pending
    /\ handle' = IF handle[1] = "live"
                 THEN << "stale", alive_cells >>
                 ELSE handle
    /\ pc' = "step_count"
    /\ UNCHANGED << width, height, generation, op, ret, old_alive,
                    old_generation, loaded, calls, remaining, pending, run >>

\* line 80: self.generation += 1, and the return of step().
StepCount ==
    /\ pc = "step_count"
    /\ generation' = generation + 1
    /\ pending' = {}
    /\ pc' = "check"
    /\ UNCHANGED << width, height, alive_cells, op, ret, old_alive,
                    old_generation, loaded, calls, handle, remaining, run >>

\* The loop without its break: an empty grid is stepped on.
CheckPopulationContinues ==
    /\ pc = "check"
    /\ pc' = "loop"
    /\ UNCHANGED << engine, op, ret, old_alive, old_generation, loaded, calls,
                    handle, remaining, pending, run >>

\* if game.population() == 0: break
CheckPopulation ==
    /\ pc = "check"
    /\ pc' = IF population(alive_cells) = 0 THEN "caller" ELSE "loop"
    /\ remaining' = IF population(alive_cells) = 0 THEN 0 ELSE remaining
    /\ run' = IF population(alive_cells) = 0
              THEN [ run EXCEPT !.status = "returned" ]
              ELSE run
    /\ UNCHANGED << engine, op, ret, old_alive, old_generation, loaded, calls,
                    handle, pending >>

\* except KeyboardInterrupt: the run is left where it stands.
Interrupt ==
    /\ InRun
    /\ pc' = "caller"
    /\ remaining' = 0
    /\ pending' = {}
    /\ ret' = "interrupted"
    /\ run' = [ run EXCEPT !.status = "interrupted" ]
    /\ UNCHANGED << engine, op, old_alive, old_generation, loaded, calls,
                    handle >>

DriveNext ==
    \/ /\ calls < MaxCalls
       /\ \/ \E row \in Coords, col \in Coords : AddCell(row, col)
          \/ \E name \in PatternNames, o \in LoadOffsets :
                LoadPattern(name, o[1], o[2])
          \/ Step
          \/ \E generations \in Generations : StartRun(generations)
    \/ LoopHead
    \/ RenderAndSleep
    \/ StepBuild
    \/ StepAssign
    \/ StepCount
    \/ CheckPopulation
    \/ Interrupt

DriveSpec == Init /\ [][DriveNext]_vars

(* LoopSpec: run_simulation without a KeyboardInterrupt. The interpreter   *)
(* keeps executing the statements of the run, and time.sleep returns: the   *)
(* steps of the run are weakly fair.                                        *)

RunStep ==
    \/ LoopHead
    \/ RenderAndSleep
    \/ StepBuild
    \/ StepAssign
    \/ StepCount
    \/ CheckPopulation

LoopNext ==
    \/ /\ calls < MaxCalls
       /\ \/ \E row \in Coords, col \in Coords : AddCell(row, col)
          \/ \E name \in PatternNames, o \in LoadOffsets :
                LoadPattern(name, o[1], o[2])
          \/ \E generations \in Generations : StartRun(generations)
    \/ RunStep

LoopSpec == Init /\ [][LoopNext]_vars /\ WF_vars(RunStep)

----------------------------------------------------------------------------
(* What the properties are stated with: the eight cells around a cell,     *)
(* written out, and a finite region around an alive set outside of which   *)
(* every cell is dead and has no alive neighbour.                          *)

Around(x) ==
    { << x[1] - 1, x[2] - 1 >>, << x[1] - 1, x[2] >>, << x[1] - 1, x[2] + 1 >>,
      << x[1], x[2] - 1 >>,                           << x[1], x[2] + 1 >>,
      << x[1] + 1, x[2] - 1 >>, << x[1] + 1, x[2] >>, << x[1] + 1, x[2] + 1 >> }

AliveAround(A, x) == Cardinality(Around(x) \cap A)

Least(S) == CHOOSE m \in S : \A k \in S : m <= k
Greatest(S) == CHOOSE m \in S : \A k \in S : m >= k

Region(A) ==
    IF A = {}
    THEN Coords \X Coords
    ELSE LET rows == { x[1] : x \in A }
             cols == { x[2] : x \in A }
         IN  ((Least(rows) - 2)..(Greatest(rows) + 2))
                \X ((Least(cols) - 2)..(Greatest(cols) + 2))

\* The rules of Life over the whole plane, applied to an alive set A.
LifeNext(A) ==
    { x \in Region(A) : \/ x \in A /\ AliveAround(A, x) \in { 2, 3 }
                        \/ x \notin A /\ AliveAround(A, x) = 3 }

Shift(A, dr, dc) == { << x[1] + dr, x[2] + dc >> : x \in A }

Stepped == op[1] = "step"

----------------------------------------------------------------------------
(* C1.  Survival: a cell that is alive and has exactly 2 or exactly 3     *)
(* alive cells among the eight around it before step() is alive after     *)
(* step().                                                                 *)

C1_Survival ==
    Stepped =>
        \A x \in old_alive :
            AliveAround(old_alive, x) \in { 2, 3 } => x \in alive_cells

\* A step after which one survivor had 2 and another had 3 alive neighbours.
C1_Witness ==
    /\ Stepped
    /\ \E x \in old_alive : AliveAround(old_alive, x) = 2 /\ x \in alive_cells
    /\ \E x \in old_alive : AliveAround(old_alive, x) = 3 /\ x \in alive_cells

(* C2.  Birth: a cell that is dead and has exactly 3 alive cells around it *)
(* before step() is alive after step(); with {(4,4),(4,5),(5,4)} alive,    *)
(* (5,5) is dead before and alive after one step.                          *)

C2_Birth ==
    Stepped =>
        \A x \in Region(old_alive) \ old_alive :
            AliveAround(old_alive, x) = 3 => x \in alive_cells

\* The step of the three cells in an L.
C2_Witness ==
    /\ Stepped
    /\ old_alive = { << 4, 4 >>, << 4, 5 >>, << 5, 4 >> }
    /\ << 5, 5 >> \notin old_alive
    /\ AliveAround(old_alive, << 5, 5 >>) = 3
    /\ << 5, 5 >> \in alive_cells

(* C3.  Death: a cell, alive or dead, with fewer than 2 or more than 3     *)
(* alive cells around it before step() is dead after step(), and a dead    *)
(* cell with a count other than 3 stays dead.                              *)

C3_Death ==
    Stepped =>
        \A x \in Region(old_alive) :
            /\ (AliveAround(old_alive, x) < 2 \/ AliveAround(old_alive, x) > 3)
                    => x \notin alive_cells
            /\ (x \notin old_alive /\ AliveAround(old_alive, x) # 3)
                    => x \notin alive_cells

\* A step in which one alive cell died with fewer than 2 neighbours, one
\* alive cell died with more than 3, and a dead cell with 2 stayed dead.
C3_Witness ==
    /\ Stepped
    /\ \E x \in old_alive : AliveAround(old_alive, x) < 2 /\ x \notin alive_cells
    /\ \E x \in old_alive : AliveAround(old_alive, x) > 3 /\ x \notin alive_cells
    /\ \E x \in Region(old_alive) \ old_alive :
            AliveAround(old_alive, x) = 2 /\ x \notin alive_cells

(* C4.  The generation counter is 0 on a new engine, every step() raises   *)
(* it by exactly 1, and it is never negative.                              *)

C4_Generation ==
    /\ generation >= 0
    /\ op[1] = "__init__" => generation = 0
    /\ Stepped => generation = old_generation + 1

\* Three steps of a new engine and nothing else: the counter is 3.
C4_Witness ==
    /\ Stepped
    /\ calls = 3
    /\ old_generation = 2
    /\ generation = 3

(* C5, as stated.  step() is the only call that changes the generation     *)
(* counter: add_cell, remove_cell, add_pattern, clear, randomize,          *)
(* is_alive, count_neighbors and population leave it as it was.            *)

C5_OnlyStepChanges ==
    op[1] \in { "add_cell", "remove_cell", "add_pattern", "clear", "randomize",
                "is_alive", "count_neighbors", "population" }
        => generation = old_generation

(* C5, amended.  step() is the only call that raises the generation        *)
(* counter: add_cell, remove_cell, add_pattern, is_alive, count_neighbors  *)
(* and population leave it as it was, and clear and randomize set it to 0. *)

C5_OnlyStepRaises ==
    /\ op[1] \in { "add_cell", "remove_cell", "add_pattern",
                   "is_alive", "count_neighbors", "population" }
            => generation = old_generation
    /\ op[1] \in { "clear", "randomize" } => generation = 0
    /\ generation > old_generation => Stepped

\* add_cell on an engine that has stepped: the counter is kept.
C5_Witness ==
    /\ op[1] = "add_cell"
    /\ old_generation > 0
    /\ generation = old_generation

(* C6.  From any reachable state clear() leaves the alive set empty, the   *)
(* population 0 and the generation 0.                                      *)

C6_Clear ==
    op[1] = "clear" =>
        /\ alive_cells = {}
        /\ population(alive_cells) = 0
        /\ generation = 0

\* clear() of an engine that has alive cells and has stepped.
C6_Witness ==
    /\ op[1] = "clear"
    /\ old_alive # {}
    /\ old_generation > 0
    /\ alive_cells = {}
    /\ generation = 0

(* C7.  The empty grid is not terminal: step() on an empty alive set is    *)
(* possible, leaves the set empty and raises the generation by 1, however  *)
(* often it is repeated.                                                   *)

C7_EmptyStep ==
    (Stepped /\ old_alive = {}) =>
        /\ alive_cells = {}
        /\ generation = old_generation + 1

\* The third step in a row of an empty grid.
C7_Witness ==
    /\ Stepped
    /\ old_alive = {}
    /\ alive_cells = {}
    /\ old_generation = 2
    /\ generation = 3

(* C8.  Blinker: PATTERNS['blinker'] loaded at offset (5,4) into an empty  *)
(* engine gives {(5,4),(5,5),(5,6)}; after every odd number of steps the   *)
(* alive set is {(4,5),(5,5),(6,5)} and after every even number it is      *)
(* {(5,4),(5,5),(5,6)} again.                                              *)

C8_Blinker ==
    loaded = << "blinker", 5, 4 >> =>
        alive_cells = IF generation % 2 = 0
                      THEN { << 5, 4 >>, << 5, 5 >>, << 5, 6 >> }
                      ELSE { << 4, 5 >>, << 5, 5 >>, << 6, 5 >> }

\* The blinker after its second full period.
C8_Witness ==
    /\ loaded = << "blinker", 5, 4 >>
    /\ Stepped
    /\ generation = 4
    /\ old_alive = { << 4, 5 >>, << 5, 5 >>, << 6, 5 >> }
    /\ alive_cells = { << 5, 4 >>, << 5, 5 >>, << 5, 6 >> }

(* C9.  Still lifes: block, beehive and loaf, each loaded alone into an    *)
(* empty engine, have after any number of steps the alive set they had     *)
(* right after loading; the block at offset (5,5) is {(5,5),(5,6),(6,5),   *)
(* (6,6)}.                                                                 *)

C9_StillLifes ==
    /\ loaded[1] \in { "block", "beehive", "loaf" } =>
            /\ alive_cells = pattern_cells(PATTERNS[loaded[1]], loaded[2], loaded[3])
            /\ Stepped => alive_cells = old_alive
    /\ loaded = << "block", 5, 5 >> =>
            alive_cells = { << 5, 5 >>, << 5, 6 >>, << 6, 5 >>, << 6, 6 >> }

\* The block at (5,5) after five steps.
C9_Witness ==
    /\ loaded = << "block", 5, 5 >>
    /\ Stepped
    /\ generation = 5
    /\ alive_cells = { << 5, 5 >>, << 5, 6 >>, << 6, 5 >>, << 6, 6 >> }

(* C10.  Glider: PATTERNS['glider'] loaded at offset (5,5) into an empty   *)
(* engine has population 5 at every generation, and at generation 4k its   *)
(* alive set is the generation-0 set moved by (+k,+k), which for k > 0 is  *)
(* not the generation-0 set.                                               *)

GliderAt55 == { << 5, 6 >>, << 6, 7 >>, << 7, 5 >>, << 7, 6 >>, << 7, 7 >> }

C10_Glider ==
    loaded = << "glider", 5, 5 >> =>
        /\ population(alive_cells) = 5
        /\ generation = 0 => alive_cells = GliderAt55
        /\ generation % 4 = 0 =>
                alive_cells = Shift(GliderAt55, generation \div 4, generation \div 4)
        /\ generation > 0 => alive_cells # GliderAt55

\* The glider after two periods, two cells down and two cells right.
C10_Witness ==
    /\ loaded = << "glider", 5, 5 >>
    /\ generation = 8
    /\ alive_cells = Shift(GliderAt55, 2, 2)
    /\ alive_cells # GliderAt55

(* C11, as stated.  randomize at the extremes, whatever the draws in       *)
(* [0, 1): a density of 0 or less leaves population 0, and a density of 1  *)
(* or more leaves the alive set equal to the full rectangle of the cells   *)
(* (r, c) with 0 <= r < height and 0 <= c < width, that is population      *)
(* height * width.                                                         *)

FullRectangle ==
    { x \in ((-1)..height) \X ((-1)..width) :
        0 <= x[1] /\ x[1] < height /\ 0 <= x[2] /\ x[2] < width }

Randomized == op[1] = "randomize"

C11_Extremes ==
    Randomized =>
        /\ op[2][1] <= 0 => population(alive_cells) = 0
        /\ op[2][1] >= 4 =>
                /\ alive_cells = FullRectangle
                /\ population(alive_cells) = height * width

(* C11, amended.  A density of 0 or less leaves population 0, and a        *)
(* density of 1 or more leaves the alive set equal to the full rectangle,  *)
(* that is population max(height, 0) * max(width, 0): height * width when  *)
(* neither is negative.                                                    *)

AtLeast0(n) == IF n < 0 THEN 0 ELSE n

C11_ExtremesClamped ==
    Randomized =>
        /\ op[2][1] <= 0 => population(alive_cells) = 0
        /\ op[2][1] >= 4 =>
                /\ alive_cells = FullRectangle
                /\ population(alive_cells) = AtLeast0(height) * AtLeast0(width)
                /\ (height >= 0 /\ width >= 0) =>
                        population(alive_cells) = height * width

\* randomize(1.0) of a 1 x 2 grid that had other cells: both cells alive.
C11_Witness ==
    /\ Randomized
    /\ op[2][1] = 4
    /\ old_alive # {}
    /\ old_alive # alive_cells
    /\ alive_cells = { << 0, 0 >>, << 0, 1 >> }
    /\ population(alive_cells) = height * width

(* C12.  randomize(d), for any density, any draws and any prior state,    *)
(* discards the prior state: afterwards generation is 0 and every alive    *)
(* cell (r, c) has 0 <= r < height and 0 <= c < width, so cells that were  *)
(* alive outside that rectangle are dead.                                  *)

InsideRectangle(x) ==
    0 <= x[1] /\ x[1] < height /\ 0 <= x[2] /\ x[2] < width

C12_RandomizeDiscards ==
    Randomized =>
        /\ generation = 0
        /\ \A x \in alive_cells : InsideRectangle(x)
        /\ \A x \in old_alive : ~ InsideRectangle(x) => x \notin alive_cells

\* randomize of an engine that has stepped and has cells outside the
\* rectangle: some cells are alive after it, none of them outside.
C12_Witness ==
    /\ Randomized
    /\ old_generation > 0
    /\ \E x \in old_alive : ~ InsideRectangle(x)
    /\ alive_cells # {}
    /\ generation = 0

(* C13.  add_pattern is purely additive and exact: the alive set after    *)
(* add_pattern(p, or, oc) is the alive set before it united with the cells *)
(* (r + or, c + oc) for which character c of row r of p is 'O', '#' or     *)
(* '*'.  No cell is removed, not even one under a position the pattern     *)
(* marks dead, and any other character adds nothing.                       *)

PatternAdded == op[1] = "add_pattern"

\* The positions <<r, c>> of a pattern, counted from 0, and those marked.
Positions(p) ==
    UNION { { << r, c >> : c \in 0..(Len(p[r + 1]) - 1) } : r \in 0..(Len(p) - 1) }

Marked(p) ==
    { q \in Positions(p) :
        \/ p[q[1] + 1][q[2] + 1] = "O"
        \/ p[q[1] + 1][q[2] + 1] = "#"
        \/ p[q[1] + 1][q[2] + 1] = "*" }

C13_AddPatternAdditive ==
    PatternAdded =>
        /\ alive_cells = old_alive \cup Shift(Marked(op[2][1]), op[2][2], op[2][3])
        /\ old_alive \subseteq alive_cells
        /\ generation = old_generation

\* The ring of eight added around a cell that was alive: the pattern marks
\* the centre dead and the cell stays alive.
C13_Witness ==
    /\ PatternAdded
    /\ op[2] = << << << "O", "O", "O" >>, << "O", ".", "O" >>, << "O", "O", "O" >> >>,
                  -2, -1 >>
    /\ old_alive = { << -1, 0 >> }
    /\ << -1, 0 >> \in alive_cells
    /\ population(alive_cells) = 9

(* C14.  add_cell is idempotent and unbounded: after add_cell(r, c) the   *)
(* cell (r, c) is alive for any integers r and c, negative or beyond width *)
(* and height included; on a cell that is already alive it leaves the      *)
(* alive set and the population as they were, and on a dead cell it raises *)
(* the population by exactly 1.                                            *)

CellAdded == op[1] = "add_cell"

C14_AddCell ==
    CellAdded =>
        /\ op[2] \in alive_cells
        /\ \A x \in Region(old_alive \cup { op[2] }) :
                x # op[2] => (x \in alive_cells <=> x \in old_alive)
        /\ op[2] \in old_alive =>
                /\ alive_cells = old_alive
                /\ population(alive_cells) = population(old_alive)
        /\ op[2] \notin old_alive =>
                population(alive_cells) = population(old_alive) + 1

\* add_cell(1, -1), a cell below the last row and left of column 0, twice:
\* the second call changes nothing.
C14_Witness ==
    /\ CellAdded
    /\ op[2] = << 1, -1 >>
    /\ ~ InsideRectangle(op[2])
    /\ op[2] \in old_alive
    /\ alive_cells = old_alive
    /\ population(alive_cells) = 1

(* C15.  remove_cell(r, c) on a coordinate that is not alive returns       *)
(* normally and changes nothing: the alive set, the population and the     *)
(* generation are as before.  On a coordinate that is alive it makes       *)
(* exactly that cell dead and leaves every other cell as it was.           *)

CellRemoved == op[1] = "remove_cell"

C15_RemoveCell ==
    CellRemoved =>
        /\ ret = "none"
        /\ generation = old_generation
        /\ op[2] \notin alive_cells
        /\ \A x \in Region(old_alive \cup { op[2] }) :
                x # op[2] => (x \in alive_cells <=> x \in old_alive)
        /\ op[2] \notin old_alive =>
                /\ alive_cells = old_alive
                /\ population(alive_cells) = population(old_alive)
        /\ op[2] \in old_alive =>
                population(alive_cells) = population(old_alive) - 1

\* remove_cell of a dead cell on a grid that has other cells alive.
C15_Witness ==
    /\ CellRemoved
    /\ op[2] \notin old_alive
    /\ old_alive # {}
    /\ alive_cells = old_alive
    /\ generation = old_generation

(* C16.  count_neighbors(r, c) returns, for every alive set and every     *)
(* coordinate, the number of alive cells among the 8 cells (r + dr,        *)
(* c + dc) with dr, dc in {-1, 0, 1} other than (r, c): it is in 0..8, the *)
(* cell itself is never counted, alive neighbours outside the width and    *)
(* height rectangle are counted, and neither the alive set nor the         *)
(* generation changes.                                                     *)

NeighborsCounted == op[1] = "count_neighbors"

C16_CountNeighbors ==
    NeighborsCounted =>
        /\ ret = AliveAround(old_alive, op[2])
        /\ ret = Cardinality({ x \in old_alive \ { op[2] } :
                                 /\ x[1] - op[2][1] \in { -1, 0, 1 }
                                 /\ x[2] - op[2][2] \in { -1, 0, 1 } })
        /\ ret \in 0..8
        /\ alive_cells = old_alive
        /\ generation = old_generation

\* count_neighbors of an alive cell whose eight neighbours are alive, all
\* of them outside the rectangle: 8, not 9.
C16_Witness ==
    /\ NeighborsCounted
    /\ op[2] \in alive_cells
    /\ Around(op[2]) \subseteq alive_cells
    /\ \A x \in Around(op[2]) : ~ InsideRectangle(x)
    /\ ret = 8

(* C17.  For each of the 13 catalog entries of PATTERNS and every offset, *)
(* add_pattern into an empty engine yields a population greater than 0,    *)
(* equal to the number of alive markers in the pattern.                    *)

RECURSIVE MarkersInRow(_, _)
MarkersInRow(row, k) ==
    IF k = 0 THEN 0
    ELSE MarkersInRow(row, k - 1)
            + (IF row[k] = "O" \/ row[k] = "#" \/ row[k] = "*" THEN 1 ELSE 0)

RECURSIVE MarkersInRows(_, _)
MarkersInRows(p, r) ==
    IF r = 0 THEN 0
    ELSE MarkersInRows(p, r - 1) + MarkersInRow(p[r], Len(p[r]))

\* The number of alive markers of each catalog pattern, written out.
CatalogMarkers ==
    [ glider |-> 5, blinker |-> 3, toad |-> 6, beacon |-> 8, pulsar |-> 48,
      glider_gun |-> 36, lightweight_spaceship |-> 9, r_pentomino |-> 5,
      diehard |-> 7, acorn |-> 7, block |-> 4, beehive |-> 6, loaf |-> 7 ]

C17_CatalogPopulation ==
    /\ DOMAIN PATTERNS = PatternNames
    /\ Cardinality(PatternNames) = 13
    /\ (PatternAdded /\ loaded # NotLoaded) =>
            /\ old_alive = {}
            /\ population(alive_cells) > 0
            /\ population(alive_cells) =
                    MarkersInRows(PATTERNS[loaded[1]], Len(PATTERNS[loaded[1]]))
            /\ population(alive_cells) = CatalogMarkers[loaded[1]]

\* The glider gun loaded at a negative row offset: 36 cells.
C17_Witness ==
    /\ PatternAdded
    /\ loaded = << "glider_gun", -3, 7 >>
    /\ old_alive = {}
    /\ population(alive_cells) = 36

(* C18.  No aliasing of the live alive set is exposed: a caller never     *)
(* holds a mutable handle to the engine's internal set, so the membership  *)
(* of the set changes only through add_cell, remove_cell, add_pattern,     *)
(* clear, randomize and step, never through an action of the caller on a   *)
(* value it obtained from the engine.                                      *)

EngineOperations ==
    { "add_cell", "remove_cell", "add_pattern", "clear", "randomize", "step" }

C18_NoAliasing ==
    /\ handle[1] # "live"
    /\ alive_cells # old_alive => op[1] \in EngineOperations

(* C19.  step() is atomic for the caller and any stop point is safe:      *)
(* whenever the caller has control after a step() was begun, also when     *)
(* run_simulation was stopped by a KeyboardInterrupt at any point of the   *)
(* loop or inside step(), the pair (alive set, generation) is a whole      *)
(* generation: either the pair from before that step, or the next          *)
(* generation's set together with the generation counter raised by one.    *)

C19_WholeGeneration ==
    (pc = "caller" /\ Stepped) =>
        \/ /\ alive_cells = old_alive
           /\ generation = old_generation
        \/ /\ alive_cells = LifeNext(old_alive)
           /\ generation = old_generation + 1

(* C20.  step() never consults or modifies width and height: a step       *)
(* leaves width and height as they were, and the alive set after the step  *)
(* is the rules of Life applied to the alive set before it over the whole  *)
(* plane, a function of that set alone, so engines of different width and  *)
(* height with equal alive sets step to equal alive sets; cells outside    *)
(* [0,height) x [0,width), negative coordinates included, obey the same    *)
(* rules and are never clipped.                                            *)

C20_StepIgnoresBounds ==
    [][ op'[1] = "step" =>
            /\ width' = width
            /\ height' = height
            /\ alive_cells' = LifeNext(alive_cells) ]_vars

C20_Witness ==
    /\ Stepped
    /\ \E x \in alive_cells \ old_alive : x[1] < 0 /\ x[2] < 0
    /\ \E y \in alive_cells \cap old_alive : ~InsideRectangle(y)
    /\ \E z \in old_alive \ alive_cells : ~InsideRectangle(z)

(* C21.  Catalog oscillators have their documented periods: loaded alone  *)
(* into an empty engine, toad and beacon have exactly their initial alive  *)
(* set after 2 steps (and after every even number of steps) and another    *)
(* set after 1 step; pulsar has exactly its initial alive set after 3      *)
(* steps (and after every multiple of 3) and another set after 1 and       *)
(* after 2 steps.                                                          *)

InitialCells == pattern_cells(PATTERNS[loaded[1]], loaded[2], loaded[3])

C21_Periods ==
    /\ loaded[1] \in { "toad", "beacon" } =>
            /\ generation % 2 = 0 => alive_cells = InitialCells
            /\ generation = 1 => alive_cells # InitialCells
    /\ loaded[1] = "pulsar" =>
            /\ generation % 3 = 0 => alive_cells = InitialCells
            /\ generation \in { 1, 2 } => alive_cells # InitialCells

\* The pulsar back at its initial set after three steps, the toad and the
\* beacon two steps earlier in theirs.
C21_Witness ==
    /\ Stepped
    /\ \/ /\ loaded[1] = "pulsar"
          /\ generation = 3
       \/ /\ loaded[1] \in { "toad", "beacon" }
          /\ generation = 2
    /\ alive_cells = InitialCells
    /\ old_alive # InitialCells
    /\ population(alive_cells) \in { 6, 8, 48 }

(* C22.  Diehard disappears after exactly 130 generations: with           *)
(* PATTERNS['diehard'] loaded alone into an empty engine, population() is  *)
(* above 0 at every generation 0..129 and is 0 at generation 130 and at    *)
(* every later generation.                                                 *)

C22_Diehard ==
    loaded[1] = "diehard" =>
        /\ generation < 130 => population(alive_cells) > 0
        /\ generation >= 130 => population(alive_cells) = 0

\* The step that empties the grid: two cells at generation 129, none at 130.
C22_Witness ==
    /\ loaded[1] = "diehard"
    /\ Stepped
    /\ generation = 130
    /\ population(old_alive) = 2
    /\ population(alive_cells) = 0

(* C23.  The lightweight spaceship travels horizontally: with             *)
(* PATTERNS['lightweight_spaceship'] loaded alone into an empty engine,    *)
(* the alive set after 4 steps is the initial alive set moved by (0, dc)   *)
(* for some dc other than 0, no row offset, with the same population.      *)
(* Four steps move a cell by at most four columns.                         *)

ColumnMoves == { -4, -3, -2, -1, 1, 2, 3, 4 }

C23_Spaceship ==
    (loaded[1] = "lightweight_spaceship" /\ generation = 4) =>
        /\ \E dc \in ColumnMoves : alive_cells = Shift(InitialCells, 0, dc)
        /\ population(alive_cells) = population(InitialCells)

\* The spaceship loaded at (-3, 7), four steps later two columns further.
C23_Witness ==
    /\ loaded = << "lightweight_spaceship", -3, 7 >>
    /\ Stepped
    /\ generation = 4
    /\ alive_cells = Shift(InitialCells, 0, 2)
    /\ alive_cells # InitialCells
    /\ population(alive_cells) = 9

(* C24.  The engine has no error outcome: add_cell, remove_cell,          *)
(* is_alive, count_neighbors, step, clear, randomize, add_pattern and      *)
(* population can be called in every state with every input and complete   *)
(* with a value of their return type, never an exception: with negative    *)
(* coordinates and offsets, with a density outside [0, 1], with an empty   *)
(* pattern (state unchanged), with pattern rows of unequal length, and     *)
(* with width or height <= 0 (randomize then yields the empty set).        *)

Returned ==
    CASE op[1] \in EngineOperations -> ret = "none"
      [] op[1] = "is_alive" -> ret \in BOOLEAN
      [] op[1] = "count_neighbors" -> ret \in 0..8
      [] op[1] = "population" -> ret \in Nat
      [] OTHER -> TRUE

EveryCallEnabled ==
    /\ \A row \in Coords, col \in Coords :
            /\ ENABLED AddCell(row, col)
            /\ ENABLED RemoveCell(row, col)
            /\ ENABLED IsAlive(row, col)
            /\ ENABLED CountNeighbors(row, col)
    /\ ENABLED Step
    /\ ENABLED Clear
    /\ ENABLED Population
    /\ \A density \in Densities :
            \A draw \in [rectangle(height, width) -> DrawValues] :
                ENABLED Randomize(density, draw)
    /\ \A pattern \in OtherPatterns, o \in Offsets :
            ENABLED AddPattern(pattern, o[1], o[2])

C24_NoError ==
    /\ Returned
    /\ (pc = "caller" /\ calls < MaxCalls) => EveryCallEnabled
    /\ (PatternAdded /\ op[2][1] = << >>) =>
            /\ alive_cells = old_alive
            /\ generation = old_generation
    /\ (Randomized /\ (width <= 0 \/ height <= 0)) => alive_cells = {}

\* A density of 1.5 on an engine of negative width and height, after cells
\* were added: the call returns None and leaves the empty set.
C24_Witness ==
    /\ Randomized
    /\ op[2][1] = 6
    /\ width < 0
    /\ height < 0
    /\ old_alive # {}
    /\ ret = "none"
    /\ alive_cells = {}

(* C25.  The candidate-set step equals the full-plane rule: the set       *)
(* installed by step() is exactly the set of the cells x of the plane      *)
(* that were alive with 2 or 3 alive neighbours or dead with 3, counted    *)
(* in the alive set as it was before the step; and every cell outside the  *)
(* candidate set (the alive cells and their 8 neighbours) is dead both     *)
(* before and after the step.                                              *)

Candidates(A) == A \cup UNION { Around(x) : x \in A }

C25_FullPlane ==
    Stepped =>
        /\ alive_cells = LifeNext(old_alive)
        /\ alive_cells \subseteq Candidates(old_alive)
        /\ \A x \in Region(old_alive) \ Candidates(old_alive) :
                /\ x \notin old_alive
                /\ x \notin alive_cells
                /\ AliveAround(old_alive, x) = 0

\* A step with a birth, a death and a survivor at once.
C25_Witness ==
    /\ Stepped
    /\ \E x \in alive_cells \ old_alive : AliveAround(old_alive, x) = 3
    /\ \E y \in old_alive \ alive_cells : AliveAround(old_alive, y) = 0
    /\ \E z \in old_alive \cap alive_cells : AliveAround(old_alive, z) = 2
    /\ Region(old_alive) \ Candidates(old_alive) # {}

(* C26.  Driver loop: run_simulation(game, generations=N), when not       *)
(* interrupted, always terminates; it calls game.step() at most max(N,0)   *)
(* times, renders the current state before each step, and stops right      *)
(* after the first step that leaves population() = 0; started on an empty  *)
(* grid with N >= 1 it performs exactly one step (the generation rises by  *)
(* one, from 0 to 1 on a new engine) and with N <= 0 it performs no step.  *)

AtLeastZero(n) == IF n > 0 THEN n ELSE 0

JustReturned ==
    /\ pc = "caller"
    /\ run.status = "returned"
    /\ calls = run.at

C26_Loop ==
    /\ run.steps <= AtLeastZero(run.generations)
    /\ pc = "step_enter" =>
            /\ run.shown = << alive_cells, generation >>
            /\ run.renders = run.steps + 1
    /\ (pc \in { "loop", "render", "step_enter" } /\ run.steps > 0) =>
            population(alive_cells) > 0
    /\ JustReturned =>
            /\ generation = run.first[2] + run.steps
            /\ run.renders = run.steps
            /\ run.steps < AtLeastZero(run.generations) =>
                    population(alive_cells) = 0
            /\ (run.first[1] = {} /\ run.generations >= 1) =>
                    /\ run.steps = 1
                    /\ alive_cells = {}
            /\ (run.first = << {}, 0 >> /\ run.generations >= 1) => generation = 1
            /\ run.generations <= 0 =>
                    /\ run.steps = 0
                    /\ << alive_cells, generation >> = run.first

C26_Driver ==
    /\ []C26_Loop
    /\ InRun ~> pc = "caller"

\* A run of 3 generations on a new, empty engine, back after one step.
C26_Witness ==
    /\ JustReturned
    /\ run.first = << {}, 0 >>
    /\ run.generations = 3
    /\ run.steps = 1
    /\ run.renders = 1
    /\ generation = 1
    /\ alive_cells = {}

(* C27.  Translation invariance: for an alive set A and an offset         *)
(* (dr, dc), stepping A moved by (dr, dc) gives the step of A moved by     *)
(* (dr, dc); and add_pattern(p, or, oc) followed by k steps gives what     *)
(* add_pattern(p, 0, 0) followed by k steps gives, moved by (or, oc).      *)

Moves == { << -7, 3 >>, << 0, -1 >>, << 2, 0 >>, << 5, 5 >> }

RECURSIVE StepsOf(_, _)
StepsOf(A, k) == IF k = 0 THEN A ELSE StepsOf(new_alive(A), k - 1)

C27_Translation ==
    /\ Stepped =>
            \A d \in Moves :
                new_alive(Shift(old_alive, d[1], d[2])) = Shift(alive_cells, d[1], d[2])
    /\ loaded # NotLoaded =>
            alive_cells =
                Shift(StepsOf(pattern_cells(PATTERNS[loaded[1]], 0, 0), generation),
                      loaded[2], loaded[3])

\* The glider loaded at (-3, 7) and stepped 9 times, and the same glider
\* loaded at (0, 0) and stepped 9 times: one is the other moved by (-3, 7).
C27_Witness ==
    /\ loaded = << "glider", -3, 7 >>
    /\ Stepped
    /\ generation = 9
    /\ alive_cells = Shift(StepsOf(pattern_cells(PATTERNS["glider"], 0, 0), 9), -3, 7)
    /\ alive_cells # StepsOf(pattern_cells(PATTERNS["glider"], 0, 0), 9)
    /\ alive_cells # old_alive

(* C28.  Locality of growth: every cell alive after step() is within      *)
(* Chebyshev distance 1 of some cell alive before the step, so the         *)
(* bounding box of the alive set grows by at most one cell per side per    *)
(* generation; and an alive cell with no other alive cell within distance  *)
(* 2 causes no birth: the eight cells around it are dead after the step.   *)

Distance(x, y) ==
    LET dr == IF x[1] >= y[1] THEN x[1] - y[1] ELSE y[1] - x[1]
        dc == IF x[2] >= y[2] THEN x[2] - y[2] ELSE y[2] - x[2]
    IN  IF dr >= dc THEN dr ELSE dc

Rows(A) == { x[1] : x \in A }
Cols(A) == { x[2] : x \in A }

Isolated(A, x) == \A y \in A \ { x } : Distance(x, y) > 2

C28_Locality ==
    Stepped =>
        /\ \A x \in alive_cells : \E y \in old_alive : Distance(x, y) <= 1
        /\ alive_cells # {} =>
                /\ old_alive # {}
                /\ Least(Rows(alive_cells)) >= Least(Rows(old_alive)) - 1
                /\ Greatest(Rows(alive_cells)) <= Greatest(Rows(old_alive)) + 1
                /\ Least(Cols(alive_cells)) >= Least(Cols(old_alive)) - 1
                /\ Greatest(Cols(alive_cells)) <= Greatest(Cols(old_alive)) + 1
        /\ \A x \in old_alive :
                Isolated(old_alive, x) =>
                    /\ x \notin alive_cells
                    /\ Around(x) \cap alive_cells = {}

\* A step that grew the bounding box by one cell on a side, with an isolated
\* cell elsewhere that died without a birth around it.
C28_Witness ==
    /\ Stepped
    /\ alive_cells # {}
    /\ \/ Least(Rows(alive_cells)) = Least(Rows(old_alive)) - 1
       \/ Greatest(Rows(alive_cells)) = Greatest(Rows(old_alive)) + 1
       \/ Least(Cols(alive_cells)) = Least(Cols(old_alive)) - 1
       \/ Greatest(Cols(alive_cells)) = Greatest(Cols(old_alive)) + 1
    /\ \E x \in alive_cells \ old_alive : \E y \in old_alive : Distance(x, y) = 1
    /\ \E x \in old_alive : Isolated(old_alive, x) /\ old_alive # { x }

====
